---------------------------- MODULE Spec2Model ----------------------------
(***************************************************************************)
(* Model of automerge-c-v2/check_msgpack.py: the corpus validator that      *)
(* lists ./examples/example-data, skips the *.json entries, reads every     *)
(* other entry as bytes and tries msgpack.unpackb on them.                  *)
(*                                                                         *)
(* One action per statement of the script.  The file system and the        *)
(* msgpack library are the environment: the directory listing, whether an  *)
(* entry can be opened and read, and the bytes it holds are chosen in Init.*)
(* stdout, the set of open file handles and the log of the calls made to   *)
(* the environment are the observable effects.                             *)
(***************************************************************************)
EXTENDS Bags, FiniteSets, Integers, Sequences, TLC

VARIABLES
    listing,    \* the list os.listdir(DIR) returned (names, no duplicates)
    fs,         \* the directory: name -> [perm, bytes]
    it,         \* position of the for loop's iterator in listing
    path,       \* loop variable `path`
    fpath,      \* variable `fpath`
    bs,         \* variable `bs`
    f,          \* variable `f` (the file object of the with statement)
    obj,        \* variable `obj`
    e,          \* variable `e` (the caught exception)
    exc,        \* the exception in flight, None when there is none
    pc,         \* the statement the script is at
    out,        \* the lines printed to stdout, in order
    handles,    \* the file handles currently open
    calls       \* log of the calls made to open, read, close and unpackb

vars ==
    <<listing, fs, it, path, fpath, bs, f, obj, e, exc, pc, out, handles, calls>>

-----------------------------------------------------------------------------
(* Bounds and the environment's alphabets *)

MaxFiles == 3

Names == {"a.json", "b.bin", "c.bin", "json"}

\* the byte strings an entry can hold, written in hexadecimal: the integer 42
\* (positive fixint 0x2a), an array header of length one with its element
\* missing (0x91), and the marker byte that the format never uses (0xc1)
ValidBytes == "2a"

TruncatedBytes == "91"

BadMarkerBytes == "c1"

FileStates ==
    { [perm |-> "noopen", bytes |-> ValidBytes],
      [perm |-> "noread", bytes |-> ValidBytes],
      [perm |-> "ok",     bytes |-> ValidBytes],
      [perm |-> "ok",     bytes |-> TruncatedBytes],
      [perm |-> "ok",     bytes |-> BadMarkerBytes] }

Listings ==
    UNION { { s \in [1..n -> Names] :
                \A a, b \in 1..n : a # b => s[a] # s[b] } : n \in 0..MaxFiles }

Range(s) ==
    { s[k] : k \in DOMAIN s }

-----------------------------------------------------------------------------
(* The script's constants and pure helpers *)

None == "None"

DIR == "./examples/example-data"

JsonSuffix == ".json"

\* f"{DIR}/{path}"
JoinPath(d, p) ==
    d \o "/" \o p

\* a prefix test where the suffix test is meant
startswith(s, suffix) ==
    /\ Len(s) >= Len(suffix)
    /\ SubSeq(s, 1, Len(suffix)) = suffix

\* str.endswith
endswith(s, suffix) ==
    /\ Len(s) >= Len(suffix)
    /\ SubSeq(s, Len(s) - Len(suffix) + 1, Len(s)) = suffix

\* the directory entry that a path handed to open() resolves to
Lookup(fp) ==
    fs[CHOOSE n \in DOMAIN fs : JoinPath(DIR, n) = fp]

\* msgpack.unpackb on the byte strings of the model: a value, or the
\* exception it raises (all of them subclasses of Exception)
unpackb(b) ==
    CASE b = ValidBytes     -> [ok |-> TRUE,  value |-> "42", err |-> None]
      [] b = TruncatedBytes -> [ok |-> FALSE, value |-> None,
                                err |-> "Unpack failed: incomplete input"]
      [] OTHER              -> [ok |-> FALSE, value |-> None,
                                err |-> "Unpack failed: error = -1"]

ReadingLine(fp) ==
    [kind |-> "Reading", path |-> fp, err |-> None]

ErrorLine(fp, ex) ==
    [kind |-> "File", path |-> fp, err |-> ex]

Call(op, fp, ok) ==
    [op |-> op, path |-> fp, ok |-> ok]

-----------------------------------------------------------------------------
(* Initial state: before the for statement, after os.listdir(DIR) *)

Init ==
    /\ listing \in Listings
    /\ fs \in [Range(listing) -> FileStates]
    /\ it = 0
    /\ path = None
    /\ fpath = None
    /\ bs = None
    /\ f = None
    /\ obj = None
    /\ e = None
    /\ exc = None
    /\ pc = "for"
    /\ out = <<>>
    /\ handles = {}
    /\ calls = <<>>

-----------------------------------------------------------------------------
(* One action per statement *)

\* line 7: the for statement takes the next entry of the listing
ForNext ==
    /\ pc = "for"
    /\ it < Len(listing)
    /\ it' = it + 1
    /\ path' = listing[it + 1]
    /\ pc' = "fpath"
    /\ UNCHANGED <<listing, fs, fpath, bs, f, obj, e, exc, out, handles, calls>>

\* line 7: the listing is exhausted, the script ends normally
ForEnd ==
    /\ pc = "for"
    /\ it = Len(listing)
    /\ pc' = "done"
    /\ UNCHANGED <<listing, fs, it, path, fpath, bs, f, obj, e, exc, out,
                   handles, calls>>

\* line 8: fpath = f"{DIR}/{path}"
MakeFpath ==
    /\ pc = "fpath"
    /\ fpath' = JoinPath(DIR, path)
    /\ pc' = "if"
    /\ UNCHANGED <<listing, fs, it, path, bs, f, obj, e, exc, out, handles, calls>>

\* lines 9-10: if fpath.endswith(".json"): continue
FilterSkip ==
    /\ pc = "if"
    /\ endswith(fpath, JsonSuffix)
    /\ pc' = "for"
    /\ UNCHANGED <<listing, fs, it, path, fpath, bs, f, obj, e, exc, out,
                   handles, calls>>

\* lines 9, 11: the test is false; bs = None
FilterPass ==
    /\ pc = "if"
    /\ ~endswith(fpath, JsonSuffix)
    /\ bs' = None
    /\ pc' = "open"
    /\ UNCHANGED <<listing, fs, it, path, fpath, f, obj, e, exc, out, handles, calls>>

\* line 12: open(fpath, "rb") succeeds and the with block is entered
OpenOk ==
    /\ pc = "open"
    /\ Lookup(fpath).perm # "noopen"
    /\ f' = fpath
    /\ handles' = handles \cup {fpath}
    /\ calls' = Append(calls, Call("open", fpath, TRUE))
    /\ pc' = "read"
    /\ UNCHANGED <<listing, fs, it, path, fpath, bs, obj, e, exc, out>>

\* the open moved inside the try block: the OSError is caught and reported
OpenFailCaught ==
    /\ pc = "open"
    /\ Lookup(fpath).perm = "noopen"
    /\ calls' = Append(calls, Call("open", fpath, FALSE))
    /\ e' = "OSError"
    /\ pc' = "except"
    /\ UNCHANGED <<listing, fs, it, path, fpath, bs, f, obj, exc, out, handles>>

\* line 12: open raises OSError; nothing catches it, the script dies
OpenFail ==
    /\ pc = "open"
    /\ Lookup(fpath).perm = "noopen"
    /\ calls' = Append(calls, Call("open", fpath, FALSE))
    /\ exc' = "OSError"
    /\ pc' = "crashed"
    /\ UNCHANGED <<listing, fs, it, path, fpath, bs, f, obj, e, out, handles>>

\* line 13: bs = f.read()
ReadOk ==
    /\ pc = "read"
    /\ Lookup(f).perm = "ok"
    /\ bs' = Lookup(f).bytes
    /\ calls' = Append(calls, Call("read", f, TRUE))
    /\ pc' = "exit"
    /\ UNCHANGED <<listing, fs, it, path, fpath, f, obj, e, exc, out, handles>>

\* line 13: f.read() raises OSError, which leaves the with block
ReadFail ==
    /\ pc = "read"
    /\ Lookup(f).perm = "noread"
    /\ calls' = Append(calls, Call("read", f, FALSE))
    /\ exc' = "OSError"
    /\ pc' = "exit"
    /\ UNCHANGED <<listing, fs, it, path, fpath, bs, f, obj, e, out, handles>>

\* a plain open() followed by f.close(): the close is skipped on an exception
WithExitLeak ==
    /\ pc = "exit"
    /\ handles' = IF exc = None THEN handles \ {f} ELSE handles
    /\ calls' = IF exc = None THEN Append(calls, Call("close", f, TRUE)) ELSE calls
    /\ pc' = IF exc = None THEN "print" ELSE "crashed"
    /\ UNCHANGED <<listing, fs, it, path, fpath, bs, f, obj, e, exc, out>>

\* lines 12-13: leaving the with block closes f, on the normal path and on
\* the exceptional one; the exception then goes on uncaught
WithExit ==
    /\ pc = "exit"
    /\ handles' = handles \ {f}
    /\ calls' = Append(calls, Call("close", f, TRUE))
    /\ pc' = IF exc = None THEN "print" ELSE "crashed"
    /\ UNCHANGED <<listing, fs, it, path, fpath, bs, f, obj, e, exc, out>>

\* line 14: print(f"Reading: {fpath}")
PrintReading ==
    /\ pc = "print"
    /\ out' = Append(out, ReadingLine(fpath))
    /\ pc' = "try"
    /\ UNCHANGED <<listing, fs, it, path, fpath, bs, f, obj, e, exc, handles, calls>>

\* the report placed after the try statement instead of in its except clause
UnpackOkThenReport ==
    /\ pc = "try"
    /\ unpackb(bs).ok
    /\ obj' = unpackb(bs).value
    /\ calls' = Append(calls, Call("unpackb", fpath, TRUE))
    /\ pc' = "except"
    /\ UNCHANGED <<listing, fs, it, path, fpath, bs, f, e, exc, out, handles>>

\* lines 15-16: obj = msgpack.unpackb(bs) returns
UnpackOk ==
    /\ pc = "try"
    /\ unpackb(bs).ok
    /\ obj' = unpackb(bs).value
    /\ calls' = Append(calls, Call("unpackb", fpath, TRUE))
    /\ pc' = "for"
    /\ UNCHANGED <<listing, fs, it, path, fpath, bs, f, e, exc, out, handles>>

\* an except clause too narrow for the exception raised: it propagates
UnpackFailUncaught ==
    /\ pc = "try"
    /\ ~unpackb(bs).ok
    /\ exc' = unpackb(bs).err
    /\ calls' = Append(calls, Call("unpackb", fpath, FALSE))
    /\ pc' = "crashed"
    /\ UNCHANGED <<listing, fs, it, path, fpath, bs, f, obj, e, out, handles>>

\* the first exception caught is kept for every later report
UnpackFailStaleError ==
    /\ pc = "try"
    /\ ~unpackb(bs).ok
    /\ e' = IF e = None THEN unpackb(bs).err ELSE e
    /\ calls' = Append(calls, Call("unpackb", fpath, FALSE))
    /\ pc' = "except"
    /\ UNCHANGED <<listing, fs, it, path, fpath, bs, f, obj, exc, out, handles>>

\* lines 16, 18: unpackb raises, except Exception as e catches it
UnpackFail ==
    /\ pc = "try"
    /\ ~unpackb(bs).ok
    /\ e' = unpackb(bs).err
    /\ calls' = Append(calls, Call("unpackb", fpath, FALSE))
    /\ pc' = "except"
    /\ UNCHANGED <<listing, fs, it, path, fpath, bs, f, obj, exc, out, handles>>

\* except: pass
ReportSwallowed ==
    /\ pc = "except"
    /\ pc' = "for"
    /\ UNCHANGED <<listing, fs, it, path, fpath, bs, f, obj, e, exc, out,
                   handles, calls>>

\* the report followed by break
ReportBreak ==
    /\ pc = "except"
    /\ out' = Append(out, ErrorLine(fpath, e))
    /\ pc' = "done"
    /\ UNCHANGED <<listing, fs, it, path, fpath, bs, f, obj, e, exc, handles, calls>>

\* the report names the entry (path) instead of the path opened (fpath)
ReportBareName ==
    /\ pc = "except"
    /\ out' = Append(out, ErrorLine(path, e))
    /\ pc' = "for"
    /\ UNCHANGED <<listing, fs, it, path, fpath, bs, f, obj, e, exc, handles, calls>>

\* line 19: print(f"File: {fpath} had error: {e}")
Report ==
    /\ pc = "except"
    /\ out' = Append(out, ErrorLine(fpath, e))
    /\ pc' = "for"
    /\ UNCHANGED <<listing, fs, it, path, fpath, bs, f, obj, e, exc, handles, calls>>

Next ==
    \/ ForNext
    \/ ForEnd
    \/ MakeFpath
    \/ FilterSkip
    \/ FilterPass
    \/ OpenOk
    \/ OpenFail
    \/ ReadOk
    \/ ReadFail
    \/ WithExit
    \/ PrintReading
    \/ UnpackOk
    \/ UnpackFail
    \/ Report

Spec ==
    Init /\ [][Next]_vars

\* the interpreter runs the script to its end: a statement that can run, runs
FairSpec ==
    Init /\ [][Next]_vars /\ WF_vars(Next)

TypeOK ==
    /\ it \in 0..Len(listing)
    /\ pc \in {"for", "fpath", "if", "open", "read", "exit", "print", "try",
               "except", "done", "crashed"}
    /\ handles \subseteq { JoinPath(DIR, n) : n \in Names }

-----------------------------------------------------------------------------
(* Vocabulary of the properties, stated on the environment and on the      *)
(* observable effects, not on the script's helpers                         *)

\* the entry's name ends with the five characters .json
HasJsonSuffix(n) ==
    /\ Len(n) >= 5
    /\ SubSeq(n, Len(n) - 4, Len(n)) = ".json"

\* the path under which the entry named n is opened and reported
PathOf(n) ==
    "./examples/example-data/" \o n

Entries ==
    1..Len(listing)

IsData(k) ==
    ~HasJsonSuffix(listing[k])

Readable(k) ==
    fs[listing[k]].perm = "ok"

DecodeFails(k) ==
    ~unpackb(fs[listing[k]].bytes).ok

\* the script has left entry k behind: it is back at the for statement, on a
\* later entry, or has ended
Finished(k) ==
    \/ k < it
    \/ k = it /\ pc \in {"for", "done", "crashed"}

Terminated ==
    pc \in {"done", "crashed"}

NoIOFailure ==
    \A k \in Entries : IsData(k) => Readable(k)

CountLines(kind, fp) ==
    Cardinality({ p \in DOMAIN out : out[p].kind = kind /\ out[p].path = fp })

CountCalls(op, fp) ==
    Cardinality({ p \in DOMAIN calls : calls[p].op = op /\ calls[p].path = fp })

NumLines(kind) ==
    Cardinality({ p \in DOMAIN out : out[p].kind = kind })

IsPrefix(s, t) ==
    /\ Len(s) <= Len(t)
    /\ SubSeq(t, 1, Len(s)) = s

IOFails(k) ==
    IsData(k) /\ ~Readable(k)

LinesOf(fp) ==
    { p \in DOMAIN out : out[p].path = fp }

-----------------------------------------------------------------------------
\* C1: an entry whose name ends with .json is never opened, read, closed or
\* decoded, never holds a file handle, and no output line of either shape
\* carries its path, in every state of every run and whatever its position in
\* the listing, its permissions or its bytes.
C1_JsonNeverTouched ==
    \A k \in Entries :
        HasJsonSuffix(listing[k]) =>
            /\ \A p \in DOMAIN calls : calls[p].path # PathOf(listing[k])
            /\ \A p \in DOMAIN out : out[p].path # PathOf(listing[k])
            /\ PathOf(listing[k]) \notin handles

\* a finished run that passed a .json entry, unopenable and in the middle of
\* the listing, between two entries that were read
C1_Witness ==
    /\ pc = "done"
    /\ \E k \in Entries :
        /\ 1 < k
        /\ k < Len(listing)
        /\ HasJsonSuffix(listing[k])
        /\ fs[listing[k]].perm = "noopen"
    /\ NumLines("Reading") >= 2

-----------------------------------------------------------------------------
\* C2: a data entry that is read and whose decode fails gets exactly one
\* failure report with its path once the script has left it (none before), the
\* script does not die on it, it goes on to the next entry of the listing, and
\* a run without I/O failure ends normally having decoded every data entry.
C2_Reported ==
    \A k \in Entries :
        (IsData(k) /\ Readable(k) /\ DecodeFails(k)) =>
            /\ CountLines("File", PathOf(listing[k])) = IF Finished(k) THEN 1 ELSE 0
            /\ ~(k = it /\ pc = "crashed")

C2_Continues ==
    \A k \in 1..Cardinality(Names) :
        (it = k /\ pc = "except" /\ k < Len(listing)) ~> (it = k + 1)

C2_RunsToEnd ==
    NoIOFailure ~>
        (/\ pc = "done"
         /\ it = Len(listing)
         /\ \A k \in Entries :
              IsData(k) => CountCalls("unpackb", PathOf(listing[k])) = 1)

C2_DecodeFailureRecovered ==
    /\ []C2_Reported
    /\ C2_Continues
    /\ C2_RunsToEnd

\* a finished run whose first entry failed to decode, was reported, and was
\* followed by another entry that was read
C2_Witness ==
    /\ pc = "done"
    /\ Len(listing) >= 2
    /\ IsData(1) /\ Readable(1) /\ DecodeFails(1)
    /\ CountLines("File", PathOf(listing[1])) = 1
    /\ IsData(2)
    /\ CountCalls("read", PathOf(listing[2])) = 1

-----------------------------------------------------------------------------
\* C3: a data entry that cannot be opened or read stops the run at that entry
\* with the OSError uncaught: the script never gets past it, no failure report
\* is printed for it, no later entry is opened, read, decoded or printed, the
\* step that kills the script prints nothing and the output only ever grows.
C3_Stops ==
    /\ \A k \in Entries :
        IOFails(k) =>
            /\ it <= k
            /\ (it = k => pc \in {"fpath", "if", "open", "read", "exit", "crashed"})
            /\ CountLines("File", PathOf(listing[k])) = 0
            /\ \A j \in Entries :
                 j > k => /\ CountCalls("open", PathOf(listing[j])) = 0
                          /\ CountCalls("read", PathOf(listing[j])) = 0
                          /\ CountCalls("unpackb", PathOf(listing[j])) = 0
                          /\ LinesOf(PathOf(listing[j])) = {}
    /\ pc = "crashed" => (it \in Entries /\ IOFails(it) /\ exc = "OSError")

C3_OutputKept ==
    /\ IsPrefix(out, out')
    /\ pc' = "crashed" => out' = out

C3_Dies ==
    (\E k \in Entries : IOFails(k)) ~> (pc = "crashed")

C3_IOFailureFatal ==
    /\ []C3_Stops
    /\ [][C3_OutputKept]_vars
    /\ C3_Dies

\* the script died on the second entry with output for the first already
\* printed and a data entry still to come
C3_Witness ==
    /\ pc = "crashed"
    /\ it = 2
    /\ Len(listing) >= 3
    /\ IsData(3)
    /\ Len(out) >= 1

-----------------------------------------------------------------------------
\* C4: when the run has ended, with N the number of data entries that were
\* read and handed to the decoder and K the number of those whose decode
\* fails, the output has exactly N Reading lines and exactly K File lines and
\* nothing else; in a run that ends normally N counts every data entry.
Processed ==
    { k \in Entries : k <= it /\ IsData(k) /\ Readable(k) }

C4_Counts ==
    Terminated =>
        /\ \A k \in Entries :
             k \in Processed <=> CountCalls("unpackb", PathOf(listing[k])) = 1
        /\ NumLines("Reading") = Cardinality(Processed)
        /\ NumLines("File") = Cardinality({ k \in Processed : DecodeFails(k) })
        /\ Len(out) = NumLines("Reading") + NumLines("File")
        /\ pc = "done" => Processed = { k \in Entries : IsData(k) }

\* a finished run with N = 3 and K = 2
C4_Witness ==
    /\ pc = "done"
    /\ Cardinality(Processed) = 3
    /\ NumLines("File") = 2

-----------------------------------------------------------------------------
\* C5: a data entry that is read and whose bytes decode has no failure report
\* at any time, and once the script has left it the one line with its path is
\* its Reading notice; every failure report in the output names a data entry
\* that was read and whose decode fails.
C5_ValidSilent ==
    /\ \A k \in Entries :
         (IsData(k) /\ Readable(k) /\ ~DecodeFails(k)) =>
            /\ CountLines("File", PathOf(listing[k])) = 0
            /\ Finished(k) =>
                 /\ Cardinality(LinesOf(PathOf(listing[k]))) = 1
                 /\ CountLines("Reading", PathOf(listing[k])) = 1
    /\ \A p \in DOMAIN out :
         out[p].kind = "File" =>
            \E k \in Entries :
                /\ out[p].path = PathOf(listing[k])
                /\ IsData(k) /\ Readable(k) /\ DecodeFails(k)

\* a finished run in which a valid entry was decoded after an invalid one
\* had been reported
C5_Witness ==
    /\ pc = "done"
    /\ \E k \in Entries :
        /\ k > 1
        /\ IsData(k) /\ Readable(k) /\ ~DecodeFails(k)
        /\ CountCalls("unpackb", PathOf(listing[k])) = 1
    /\ NumLines("File") >= 1

-----------------------------------------------------------------------------
\* C6: when the run has ended, every entry that the script tried to open has
\* exactly one Reading line in the output, also the entry whose open or read
\* raised the I/O error.
C6_ReadingPerAttempt ==
    Terminated =>
        \A k \in Entries :
            CountCalls("open", PathOf(listing[k])) >= 1 =>
                CountLines("Reading", PathOf(listing[k])) = 1

-----------------------------------------------------------------------------
\* C7: no entry is opened, read or decoded more than once in any run, and a
\* run without I/O failure ends normally with the reads, and the decodes, being
\* exactly the data entries of the listing, each once, in listing order.
PathsOfCalls(op) ==
    LET sel == SelectSeq(calls, LAMBDA c : c.op = op)
    IN  [p \in DOMAIN sel |-> sel[p].path]

DataPathSeq ==
    LET sel == SelectSeq(listing, LAMBDA n : ~HasJsonSuffix(n))
    IN  [p \in DOMAIN sel |-> PathOf(sel[p])]

C7_ExactlyOnce ==
    /\ \A k \in Entries :
        /\ CountCalls("open", PathOf(listing[k])) <= 1
        /\ CountCalls("read", PathOf(listing[k])) <= 1
        /\ CountCalls("unpackb", PathOf(listing[k])) <= 1
    /\ (Terminated /\ NoIOFailure) =>
        /\ pc = "done"
        /\ PathsOfCalls("read") = DataPathSeq
        /\ PathsOfCalls("unpackb") = DataPathSeq

\* a finished run over three data entries, the first of which failed to decode
C7_Witness ==
    /\ pc = "done"
    /\ Len(DataPathSeq) = 3
    /\ DecodeFails(1)
    /\ Len(PathsOfCalls("unpackb")) = 3

-----------------------------------------------------------------------------
\* C8: at most one file handle is open at any time, it is the handle of the
\* current entry and it is open only between the open and the end of the with
\* block; every successful open is followed directly by the read and then the
\* close of the same path, so the handle is released before anything else
\* happens, also when the read fails.
C8_OneHandle ==
    /\ Cardinality(handles) <= 1
    /\ pc \notin {"read", "exit"} => handles = {}
    /\ pc \in {"read", "exit"} => handles = {PathOf(listing[it])}
    /\ \A p \in DOMAIN calls :
        (calls[p].op = "open" /\ calls[p].ok) =>
            /\ (p + 1 \in DOMAIN calls =>
                    /\ calls[p + 1].op = "read"
                    /\ calls[p + 1].path = calls[p].path)
            /\ (p + 2 \in DOMAIN calls =>
                    /\ calls[p + 2].op = "close"
                    /\ calls[p + 2].path = calls[p].path)
            /\ (pc \notin {"read", "exit"} => p + 2 \in DOMAIN calls)

\* the script died on a failed read of its second entry, after a first entry
\* had been opened and closed, and holds no handle
C8_Witness ==
    /\ pc = "crashed"
    /\ it = 2
    /\ CountCalls("open", PathOf(listing[1])) = 1
    /\ \E p \in DOMAIN calls :
        /\ calls[p].op = "read"
        /\ ~calls[p].ok
        /\ calls[p].path = PathOf(listing[2])
    /\ handles = {}

-----------------------------------------------------------------------------
\* C9: every failure report stands directly after a Reading notice with the
\* same path string, hence after its own file's notice and before the notice
\* of any later file, and never without a notice; the path is that of an
\* entry of the listing.
C9_ReportFollowsNotice ==
    \A p \in DOMAIN out :
        out[p].kind = "File" =>
            /\ p > 1
            /\ out[p - 1].kind = "Reading"
            /\ out[p - 1].path = out[p].path
            /\ \E k \in Entries : out[p].path = PathOf(listing[k])

\* a failure report that is followed by the notice of a later file
C9_Witness ==
    \E p \in DOMAIN out :
        /\ out[p].kind = "File"
        /\ p < Len(out)
        /\ out[p + 1].kind = "Reading"
        /\ out[p + 1].path # out[p].path

-----------------------------------------------------------------------------
\* C10: the multiset of lines of a run that ends normally is a function of the
\* set of entries alone: the union over the entries of the lines of each entry,
\* which depend on that entry's name and bytes only.  Every permutation of
\* the listing therefore prints the same multiset.
LinesFor(n) ==
    IF HasJsonSuffix(n)
    THEN {}
    ELSE { [kind |-> "Reading", path |-> PathOf(n), err |-> None] } \cup
         ( IF unpackb(fs[n].bytes).ok
           THEN {}
           ELSE { [kind |-> "File", path |-> PathOf(n),
                   err |-> unpackb(fs[n].bytes).err] } )

OutBag ==
    [l \in Range(out) |-> Cardinality({ p \in DOMAIN out : out[p] = l })]

C10_OrderIndependent ==
    pc = "done" =>
        OutBag = SetToBag(UNION { LinesFor(n) : n \in Range(listing) })

\* a finished run that listed c.bin before b.bin, with two different decode
\* errors among its entries
C10_Witness ==
    /\ pc = "done"
    /\ Len(listing) >= 3
    /\ listing[1] = "c.bin"
    /\ listing[2] = "b.bin"
    /\ fs["c.bin"].bytes = BadMarkerBytes
    /\ fs["b.bin"].bytes = TruncatedBytes
    /\ Len(out) >= 4

=============================================================================
